---- MODULE Spec2Model ----
(***************************************************************************)
(* Model of beartooth.py: the QUBO built from the altitude landscape with  *)
(* a unary coordinate encoding, the decoder of one axis of a sample, and   *)
(* the aggregation of samples into a coordinate -> count table.            *)
(*                                                                         *)
(* Python lists are modelled as functions over 0..len-1 (so the indices    *)
(* are those of the source), dicts as functions over their set of keys.    *)
(***************************************************************************)
EXTENDS Integers, Sequences, FiniteSets, TLC

VARIABLES landscape, embedding, pc, Q, error, sample, coord,
          samples, permuted, interpreted_samples, interpreted_permuted,
          lookup

vars == <<landscape, embedding, pc, Q, error, sample, coord,
          samples, permuted, interpreted_samples, interpreted_permuted,
          lookup>>

----------------------------------------------------------------------------
(* Module constants *)

ENCODING_BIAS == 5

\* f(x, y) = LANDSCAPE[x][y]; rows and columns indexed from 0 as in Python
Row(r) == [j \in 0..(Len(r) - 1) |-> r[j + 1]]

LANDSCAPE ==
    Row(<< Row(<< 4, 3, 2, 2, 3, 2, 3, 4, 4, 5 >>),
           Row(<< 3, 2, 1, 2, 2, 2, 2, 3, 4, 6 >>),
           Row(<< 3, 2, 0, 1, 2, 2, 3, 3, 5, 7 >>),
           Row(<< 3, 2, 1, 1, 2, 2, 3, 5, 7, 8 >>),
           Row(<< 3, 2, 1, 2, 3, 4, 4, 6, 7, 7 >>),
           Row(<< 2, 2, 3, 4, 4, 5, 6, 7, 6, 5 >>),
           Row(<< 2, 3, 3, 4, 5, 7, 7, 6, 5, 4 >>),
           Row(<< 4, 5, 5, 6, 6, 9, 8, 7, 5, 4 >>),
           Row(<< 5, 6, 6, 7, 8, 8, 7, 7, 6, 5 >>),
           Row(<< 7, 7, 8, 9, 9, 9, 8, 8, 6, 5 >>) >>)

\* number of groups of EMBEDDING (the physical node numbers are not modelled)
EMBEDDING == 18

\* len() of a Python list
len(l) == Cardinality(DOMAIN l)

\* the None returned for an invalid encoding; coordinates are >= 0
None == -1

----------------------------------------------------------------------------
(* Finite differences of the landscape *)

x_shift(L, x) == L[x + 1][0] - L[x][0]

y_shift(L, y) == L[0][y + 1] - L[0][y]

\* the formula of the module docstring, which subtracts f(i, j + 1) twice
angle_shift_docstring(L, x, y) ==
    L[x + 1][y + 1] - L[x][y + 1] - L[x][y + 1] + L[x][y]

angle_shift(L, x, y) ==
    L[x + 1][y + 1] - L[x][y + 1] - L[x + 1][y] + L[x][y]

----------------------------------------------------------------------------
(* Dicts *)

EmptyDict == [k \in {} |-> 0]

\* {K(i): V(i) for i in S}
DictComp(S, K(_), V(_)) ==
    [k \in {K(i) : i \in S} |-> V(CHOOSE i \in S : K(i) = k)]

\* d.update(e)
update(d, e) ==
    [k \in (DOMAIN d) \cup (DOMAIN e) |-> IF k \in DOMAIN e THEN e[k] ELSE d[k]]

\* d[key] = value
setitem(d, key, value) ==
    [k \in (DOMAIN d) \cup {key} |-> IF k = key THEN value ELSE d[k]]

\* list(range(a, b))
range_list(a, b) == [i \in 0..(b - a - 1) |-> a + i]

----------------------------------------------------------------------------
(* _get_qubo, for the landscape L and the encoding bias B *)

num_vars_of(L) == len(L) - 1

\* variables: [ x0 ... xn-2 y0 ... yn-2 ]
x_vars_of(L) == range_list(0, num_vars_of(L))

y_vars_of(L) == range_list(num_vars_of(L), 2 * num_vars_of(L))

\* Q = {(x_vars[x], x_vars[x]): B + _x_shift(x) for x in range(1, num_vars)}
\* Q[x_vars[0], x_vars[0]] = _x_shift(0)
qubo_x_diagonal(L, B) ==
    LET x_vars == x_vars_of(L)
        Q0 == DictComp(1..(num_vars_of(L) - 1),
                       LAMBDA x : <<x_vars[x], x_vars[x]>>,
                       LAMBDA x : B + x_shift(L, x))
    IN  setitem(Q0, <<x_vars[0], x_vars[0]>>, x_shift(L, 0))

\* Q.update({(y_vars[y], y_vars[y]): B + _y_shift(y) for y in range(1, num_vars)})
\* Q[y_vars[0], y_vars[0]] = _y_shift(0)
qubo_y_diagonal(L, B) ==
    LET y_vars == y_vars_of(L)
        Q0 == DictComp(1..(num_vars_of(L) - 1),
                       LAMBDA y : <<y_vars[y], y_vars[y]>>,
                       LAMBDA y : B + y_shift(L, y))
    IN  setitem(Q0, <<y_vars[0], y_vars[0]>>, y_shift(L, 0))

\* {(x_vars[x], y_vars[y]): _angle_shift(x, y) for x in range(num_vars)
\*                                              for y in range(num_vars)}
qubo_cross(L) ==
    LET x_vars == x_vars_of(L)
        y_vars == y_vars_of(L)
        r == 0..(num_vars_of(L) - 1)
    IN  DictComp(r \X r,
                 LAMBDA p : <<x_vars[p[1]], y_vars[p[2]]>>,
                 LAMBDA p : angle_shift(L, p[1], p[2]))

\* {(x_vars[x], x_vars[x - 1]): -B for x in range(1, num_vars)}
qubo_x_adjacent(L, B) ==
    LET x_vars == x_vars_of(L)
    IN  DictComp(1..(num_vars_of(L) - 1),
                 LAMBDA x : <<x_vars[x], x_vars[x - 1]>>,
                 LAMBDA x : -B)

\* the coupling of the y block keyed by x_vars: it lands on the x block again
qubo_y_adjacent_shifted(L, B) ==
    LET x_vars == x_vars_of(L)
    IN  DictComp(1..(num_vars_of(L) - 1),
                 LAMBDA y : <<x_vars[y], x_vars[y - 1]>>,
                 LAMBDA y : -B)

\* {(y_vars[y], y_vars[y - 1]): -B for y in range(1, num_vars)}
qubo_y_adjacent(L, B) ==
    LET y_vars == y_vars_of(L)
    IN  DictComp(1..(num_vars_of(L) - 1),
                 LAMBDA y : <<y_vars[y], y_vars[y - 1]>>,
                 LAMBDA y : -B)

\* _get_qubo with a bias of a fifth of B, too small for the altitude
\* differences of LANDSCAPE
get_qubo_weak_bias(L, B) ==
    update(update(update(update(qubo_x_diagonal(L, B \div 5),
                                qubo_y_diagonal(L, B \div 5)),
                         qubo_cross(L)),
                  qubo_x_adjacent(L, B \div 5)),
           qubo_y_adjacent(L, B \div 5))

get_qubo(L, B) ==
    update(update(update(update(qubo_x_diagonal(L, B),
                                qubo_y_diagonal(L, B)),
                         qubo_cross(L)),
                  qubo_x_adjacent(L, B)),
           qubo_y_adjacent(L, B))

\* LANDSCAPE[r][c] raises IndexError
subscript_raises(L, r, c) == ~(r \in DOMAIN L /\ c \in DOMAIN L[r])

x_shift_raises(L, x) == subscript_raises(L, x + 1, 0) \/ subscript_raises(L, x, 0)

y_shift_raises(L, y) == subscript_raises(L, 0, y + 1) \/ subscript_raises(L, 0, y)

angle_shift_raises(L, x, y) ==
    \/ subscript_raises(L, x + 1, y + 1)
    \/ subscript_raises(L, x, y + 1)
    \/ subscript_raises(L, x + 1, y)
    \/ subscript_raises(L, x, y)

\* _get_qubo with a check that the landscape is square before it starts
get_qubo_raises_unless_square(L) ==
    \/ len(L) < 2
    \/ \E r \in DOMAIN L : len(L[r]) # len(L)

\* _get_qubo raises IndexError: a subscript of LANDSCAPE, x_vars or y_vars is
\* out of range in one of the passes
get_qubo_raises(L) ==
    LET num_vars == num_vars_of(L)
        r == 0..(num_vars - 1)
    IN  \/ \E x \in 1..(num_vars - 1) : x_shift_raises(L, x)
        \/ 0 \notin DOMAIN x_vars_of(L)
        \/ x_shift_raises(L, 0)
        \/ \E y \in 1..(num_vars - 1) : y_shift_raises(L, y)
        \/ 0 \notin DOMAIN y_vars_of(L)
        \/ y_shift_raises(L, 0)
        \/ \E x, y \in r : angle_shift_raises(L, x, y)

----------------------------------------------------------------------------
(* _parse_coord *)

\* the loop "for v, v_index in enumerate(variables)" from position v on,
\* with the running value coord
RECURSIVE parse_coord_loop(_, _, _, _)
parse_coord_loop(s, variables, v, c) ==
    IF v >= len(variables) THEN c
    ELSE LET v_index == variables[v] IN
         IF s[v_index] = 1
         THEN IF v # 0 /\ s[v_index - 1] = 0
              THEN None
              ELSE parse_coord_loop(s, variables, v + 1, v + 1)
         ELSE parse_coord_loop(s, variables, v + 1, c)

\* the loop without "v != 0": the first variable of a block is compared with
\* the variable before the block
RECURSIVE parse_coord_loop_unguarded(_, _, _, _)
parse_coord_loop_unguarded(s, variables, v, c) ==
    IF v >= len(variables) THEN c
    ELSE LET v_index == variables[v] IN
         IF s[v_index] = 1
         THEN IF v_index - 1 \in DOMAIN s /\ s[v_index - 1] = 0
              THEN None
              ELSE parse_coord_loop_unguarded(s, variables, v + 1, v + 1)
         ELSE parse_coord_loop_unguarded(s, variables, v + 1, c)

parse_coord_unguarded(s, variables) ==
    parse_coord_loop_unguarded(s, variables, 0, 0)

\* the loop without the test of the preceding variable
RECURSIVE parse_coord_loop_unchecked(_, _, _, _)
parse_coord_loop_unchecked(s, variables, v, c) ==
    IF v >= len(variables) THEN c
    ELSE IF s[variables[v]] = 1
         THEN parse_coord_loop_unchecked(s, variables, v + 1, v + 1)
         ELSE parse_coord_loop_unchecked(s, variables, v + 1, c)

parse_coord_unchecked(s, variables) ==
    parse_coord_loop_unchecked(s, variables, 0, 0)

parse_coord(s, variables) == parse_coord_loop(s, variables, 0, 0)

----------------------------------------------------------------------------
(* _interpret_samples *)

\* d[key] of a plain dict: a missing key raises KeyError
getitem_dict(d, key) ==
    IF key \in DOMAIN d
    THEN [value |-> d[key], dict |-> d, raised |-> "none"]
    ELSE [value |-> 0, dict |-> d, raised |-> "KeyError"]

\* d[key] of a defaultdict(int): a missing key is inserted with int() = 0
getitem(d, key) ==
    IF key \in DOMAIN d
    THEN [value |-> d[key], dict |-> d, raised |-> "none"]
    ELSE [value |-> 0, dict |-> setitem(d, key, 0), raised |-> "none"]

\* _interpret_sample with "=" in the place of "+="
interpret_sample_overwrite(L, table, sm) ==
    LET s == sm[1]
        num == sm[2]
        x == parse_coord(s, x_vars_of(L))
        y == parse_coord(s, y_vars_of(L))
    IN  IF x = None THEN table
        ELSE IF y = None THEN table
        ELSE setitem(table, <<x, y>>, num)

\* _interpret_sample on the table interpreted_samples
interpret_sample(L, table, sm) ==
    LET s == sm[1]
        num == sm[2]
        x == parse_coord(s, x_vars_of(L))
        y == parse_coord(s, y_vars_of(L))
    IN  IF x = None THEN table
        ELSE IF y = None THEN table
        ELSE LET got == getitem(table, <<x, y>>)
             IN  setitem(got.dict, <<x, y>>, got.value + num)

\* map(_interpret_sample, samples) from the i-th sample on (Python 2: map
\* builds its list at once, so that every sample is interpreted)
RECURSIVE map_interpret_sample(_, _, _, _)
map_interpret_sample(L, table, sms, i) ==
    IF i > Len(sms) THEN table
    ELSE map_interpret_sample(L, interpret_sample(L, table, sms[i]), sms, i + 1)

\* a map that gives up at the first sample that is not valid
RECURSIVE map_until_invalid(_, _, _, _)
map_until_invalid(L, table, sms, i) ==
    IF i > Len(sms) THEN table
    ELSE IF \/ parse_coord(sms[i][1], x_vars_of(L)) = None
            \/ parse_coord(sms[i][1], y_vars_of(L)) = None
         THEN table
         ELSE map_until_invalid(L, interpret_sample(L, table, sms[i]), sms, i + 1)

interpret_samples_until_invalid(L, sms) == map_until_invalid(L, EmptyDict, sms, 1)

interpret_samples(L, sms) == map_interpret_sample(L, EmptyDict, sms, 1)

----------------------------------------------------------------------------
(* Energy of a bit assignment: the sum of the coefficients q[a, b] whose two *)
(* variables are both 1                                                      *)

Coefficient(q, a, b) == IF <<a, b>> \in DOMAIN q THEN q[<<a, b>>] ELSE 0

\* the sum over b <= b' < m of the coefficients q[a, b'] with s[b'] = 1
RECURSIVE EnergyRow(_, _, _, _, _)
EnergyRow(q, s, a, b, m) ==
    IF b >= m THEN 0
    ELSE (IF s[b] = 1 THEN Coefficient(q, a, b) ELSE 0)
         + EnergyRow(q, s, a, b + 1, m)

\* the sum over a <= a' < m with s[a'] = 1 of the rows of a'
RECURSIVE EnergyFrom(_, _, _, _)
EnergyFrom(q, s, a, m) ==
    IF a >= m THEN 0
    ELSE (IF s[a] = 1 THEN EnergyRow(q, s, a, 0, m) ELSE 0)
         + EnergyFrom(q, s, a + 1, m)

Energy(q, s) == EnergyFrom(q, s, 0, len(s))

----------------------------------------------------------------------------
(* The shipped configuration: one sample of the solver is given an energy  *)
(* by the QUBO and decoded on both axes                                     *)

Bits == {0, 1}

AllSamples(L) == [0..(2 * num_vars_of(L) - 1) -> Bits]

Init ==
    /\ landscape = LANDSCAPE
    /\ embedding = EMBEDDING
    /\ pc = "get_qubo"
    /\ Q = EmptyDict
    /\ error = "none"
    /\ sample = [i \in {} |-> 0]
    /\ coord = <<None, None>>
    /\ samples = <<>>
    /\ permuted = <<>>
    /\ interpreted_samples = EmptyDict
    /\ interpreted_permuted = EmptyDict
    /\ lookup = EmptyDict

\* Q = _get_qubo()
GetQubo ==
    /\ pc = "get_qubo"
    /\ IF get_qubo_raises(landscape)
       THEN /\ error' = "IndexError"
            /\ pc' = "raised"
            /\ Q' = Q
       ELSE /\ Q' = get_qubo(landscape, ENCODING_BIAS)
            /\ pc' = "qubo_to_ising"
            /\ error' = error
    /\ UNCHANGED <<landscape, embedding, sample, coord, samples,
                   permuted, interpreted_samples, interpreted_permuted, lookup>>

\* h, J, _energy_offset = dwave_sapi2.util.qubo_to_ising(Q)
QuboToIsing ==
    /\ pc = "qubo_to_ising"
    /\ pc' = "embed_problem"
    /\ UNCHANGED <<landscape, embedding, Q, error, sample, coord, samples,
                   permuted, interpreted_samples, interpreted_permuted, lookup>>

\* dwave_sapi2.embedding.embed_problem(h, J, EMBEDDING, ...): the library
\* returns or raises
EmbedProblem ==
    /\ pc = "embed_problem"
    /\ \E returns \in BOOLEAN :
        /\ pc' = IF returns THEN "solve_ising" ELSE "raised"
        /\ error' = IF returns THEN error ELSE "ExternalError"
    /\ UNCHANGED <<landscape, embedding, Q, sample, coord, samples,
                   permuted, interpreted_samples, interpreted_permuted, lookup>>

\* dwave_sapi2.core.solve_ising and unembed_answer: the solver raises, or
\* answers with some assignment of the 2 * (n - 1) variables
SolveIsing ==
    /\ pc = "solve_ising"
    /\ \E returns \in BOOLEAN :
        IF returns
        THEN /\ \E s \in AllSamples(landscape) : sample' = s
             /\ pc' = "parse_coord"
             /\ error' = error
        ELSE /\ sample' = sample
             /\ pc' = "raised"
             /\ error' = "ExternalError"
    /\ UNCHANGED <<landscape, embedding, Q, coord, samples,
                   permuted, interpreted_samples, interpreted_permuted, lookup>>

\* x = _parse_coord(s, x_vars); y = _parse_coord(s, y_vars)
ParseCoord ==
    /\ pc = "parse_coord"
    /\ coord' = <<parse_coord(sample, x_vars_of(landscape)),
                  parse_coord(sample, y_vars_of(landscape))>>
    /\ pc' = "done"
    /\ UNCHANGED <<landscape, embedding, Q, error, sample, samples,
                   permuted, interpreted_samples, interpreted_permuted, lookup>>

Next == GetQubo \/ QuboToIsing \/ EmbedProblem \/ SolveIsing \/ ParseCoord

Spec == Init /\ [][Next]_vars

----------------------------------------------------------------------------
(* The encoding of the module docstring *)

n_of(L) == len(L)

\* bit i of the block encoding coordinate c: 1 for 0 <= i < c, 0 for c <= i
Unary(c, i) == IF i < c THEN 1 ELSE 0

\* bit i of the sample encoding (x, y)
CanonicalBit(L, x, y, i) ==
    IF i < num_vars_of(L) THEN Unary(x, i) ELSE Unary(y, i - num_vars_of(L))

\* the sample encoding (x, y)
Canonical(L, x, y) ==
    [i \in 0..(2 * num_vars_of(L) - 1) |-> CanonicalBit(L, x, y, i)]

\* the block starting at variable `first` has a 1 right after a 0
Violates(L, s, first) ==
    \E v \in 1..(num_vars_of(L) - 1) : s[first + v] = 1 /\ s[first + v - 1] = 0

XBlock(L) == 0

YBlock(L) == num_vars_of(L)

Coords(L) == 0..(n_of(L) - 1)

\* the solver has answered and the answer has been decoded
Done == pc = "done"

\* s is the canonical encoding of (x, y)
IsCanonical(L, s, x, y) ==
    \A i \in DOMAIN s : s[i] = CanonicalBit(L, x, y, i)

\* C1: the energy, under the QUBO returned by _get_qubo, of the canonical
\* encoding of every (x, y) is f(x, y) - f(0, 0)
C1_Telescoping ==
    Done =>
        \A x, y \in Coords(landscape) :
            IsCanonical(landscape, sample, x, y) =>
                Energy(Q, sample) = landscape[x][y] - landscape[0][0]

C1_Witness ==
    /\ Done
    /\ sample = Canonical(landscape, 2, 9)
    /\ Energy(Q, sample) = 3

\* the energy the bias terms add: the energy with the bias less the energy of
\* the same landscape without it
UnbiasedQubo == get_qubo(LANDSCAPE, 0)

BiasEnergy(s) == Energy(Q, s) - Energy(UnbiasedQubo, s)

Monotone(L, s) == ~Violates(L, s, XBlock(L)) /\ ~Violates(L, s, YBlock(L))

\* C2: the bias terms add 0 to the energy of a sample that is a monotone
\* prefix on both axes and at least ENCODING_BIAS to any other sample
C2_BiasPenalty ==
    Done =>
        IF Monotone(landscape, sample)
        THEN BiasEnergy(sample) = 0
        ELSE BiasEnergy(sample) >= ENCODING_BIAS

C2_Witness ==
    /\ Done
    /\ ~Violates(landscape, sample, XBlock(landscape))
    /\ Violates(landscape, sample, YBlock(landscape))
    /\ BiasEnergy(sample) = ENCODING_BIAS

\* the block starting at variable `first` is the canonical encoding of c
BlockIs(L, s, first, c) ==
    \A i \in 0..(num_vars_of(L) - 1) : s[first + i] = Unary(c, i)

\* C4: _parse_coord returns c for a block holding the canonical encoding of
\* c, on either axis and whatever the other block holds
C4_RoundTrip ==
    Done =>
        \A c \in Coords(landscape) :
            /\ BlockIs(landscape, sample, XBlock(landscape), c) => coord[1] = c
            /\ BlockIs(landscape, sample, YBlock(landscape), c) => coord[2] = c

C4_Witness ==
    /\ Done
    /\ BlockIs(landscape, sample, XBlock(landscape), 0)
    /\ BlockIs(landscape, sample, YBlock(landscape), 9)
    /\ coord = <<0, 9>>

\* C5: _parse_coord returns None for a block with a 1 right after a 0, and
\* returns nothing but None or a coordinate in 0..n-1
C5_Rejection ==
    Done =>
        /\ Violates(landscape, sample, XBlock(landscape)) => coord[1] = None
        /\ Violates(landscape, sample, YBlock(landscape)) => coord[2] = None
        /\ coord[1] \in {None} \cup Coords(landscape)
        /\ coord[2] \in {None} \cup Coords(landscape)

C5_Witness ==
    /\ Done
    /\ Violates(landscape, sample, XBlock(landscape))
    /\ BlockIs(landscape, sample, YBlock(landscape), 3)
    /\ coord = <<None, 3>>

\* C9: every key of the QUBO has the lower variable first, and no pair is
\* stored in both orders
C9_CanonicalKeys ==
    pc # "get_qubo" =>
        \A k \in DOMAIN Q :
            /\ k[1] <= k[2]
            /\ k[1] # k[2] => <<k[2], k[1]>> \notin DOMAIN Q

\* the lowest altitude and the lowest energy of a canonical encoding
MinAltitude ==
    CHOOSE m \in {LANDSCAPE[x][y] : x, y \in Coords(LANDSCAPE)} :
        \A x, y \in Coords(LANDSCAPE) : m <= LANDSCAPE[x][y]

MinValidEnergy == MinAltitude - LANDSCAPE[0][0]

\* C10: for LANDSCAPE and ENCODING_BIAS, a sample that is not a monotone
\* prefix on both axes has an energy above the lowest energy of the canonical
\* encodings, so that the lowest energy is that of the canonical encodings of
\* the lowest cells only
C10_BiasSufficient ==
    Done =>
        /\ ~Monotone(landscape, sample) => Energy(Q, sample) > MinValidEnergy
        /\ Energy(Q, sample) <= MinValidEnergy =>
               \E x, y \in Coords(landscape) :
                   /\ IsCanonical(landscape, sample, x, y)
                   /\ landscape[x][y] = MinAltitude

C10_Witness ==
    /\ Done
    /\ ~Monotone(landscape, sample)
    /\ Energy(Q, sample) = 0

----------------------------------------------------------------------------
(* Aggregation: _interpret_samples on a batch of samples and on a          *)
(* permutation of the batch, then the rendering loop of the script          *)

MaxSamples == 2

MaxCount == 2

\* a block with a 1 right after a 0: 0 1 0 ... 0
Hole(i) == IF i = 1 THEN 1 ELSE 0

Block(F(_), G(_)) ==
    [i \in 0..(2 * num_vars_of(LANDSCAPE) - 1) |->
        IF i < num_vars_of(LANDSCAPE) THEN F(i) ELSE G(i - num_vars_of(LANDSCAPE))]

ValidOnXOnly == Block(LAMBDA i : Unary(1, i), Hole)

ValidOnYOnly == Block(Hole, LAMBDA i : Unary(1, i))

ValidOnNeither == Block(Hole, Hole)

SampleInputs ==
    { Canonical(LANDSCAPE, 0, 0), Canonical(LANDSCAPE, 1, 0),
      Canonical(LANDSCAPE, 9, 9), ValidOnXOnly, ValidOnYOnly, ValidOnNeither }

Batches ==
    UNION {[1..k -> SampleInputs \X (1..MaxCount)] : k \in 0..MaxSamples}

PermutationsOf(sq) ==
    LET idx == 1..Len(sq)
        perms == {p \in [idx -> idx] : \A i, j \in idx : p[i] = p[j] => i = j}
    IN  {[i \in idx |-> sq[p[i]]] : p \in perms}

Grid(L) == Coords(L) \X Coords(L)

InitAgg ==
    /\ landscape = LANDSCAPE
    /\ embedding = EMBEDDING
    /\ pc = "interpret"
    /\ Q = EmptyDict
    /\ error = "none"
    /\ sample = [i \in {} |-> 0]
    /\ coord = <<None, None>>
    /\ samples \in Batches
    /\ permuted \in PermutationsOf(samples)
    /\ interpreted_samples = EmptyDict
    /\ interpreted_permuted = EmptyDict
    /\ lookup = EmptyDict

\* interpreted_samples = _interpret_samples(samples)
Interpret ==
    /\ pc = "interpret"
    /\ interpreted_samples' = interpret_samples(landscape, samples)
    /\ pc' = "interpret_permuted"
    /\ UNCHANGED <<landscape, embedding, Q, error, sample, coord, samples,
                   permuted, interpreted_permuted, lookup>>

\* _interpret_samples on the same samples in another order
InterpretPermuted ==
    /\ pc = "interpret_permuted"
    /\ interpreted_permuted' = interpret_samples(landscape, permuted)
    /\ pc' = "render"
    /\ UNCHANGED <<landscape, embedding, Q, error, sample, coord, samples,
                   permuted, interpreted_samples, lookup>>

\* for i in range(n): for j in range(n): print samples[i, j]
Render ==
    /\ pc = "render"
    /\ LET grid == Grid(landscape)
           raised == \E c \in grid :
                        getitem(interpreted_samples, c).raised # "none"
       IN  IF raised
           THEN /\ error' = "KeyError"
                /\ pc' = "raised"
                /\ UNCHANGED <<lookup, interpreted_samples>>
           ELSE /\ lookup' = [c \in grid |-> getitem(interpreted_samples, c).value]
                /\ interpreted_samples' =
                       [c \in grid \cup DOMAIN interpreted_samples |->
                           getitem(interpreted_samples, c).dict[c]]
                /\ pc' = "rendered"
                /\ error' = error
    /\ UNCHANGED <<landscape, embedding, Q, sample, coord, samples,
                   permuted, interpreted_permuted>>

NextAgg == Interpret \/ InterpretPermuted \/ Render

SpecAgg == InitAgg /\ [][NextAgg]_vars

\* the value a lookup of the table at c gives
At(table, c) == IF c \in DOMAIN table THEN table[c] ELSE 0

\* the sum of the counts of the samples from the i-th on that are the
\* canonical encoding of (x, y)
RECURSIVE CountOf(_, _, _, _, _)
CountOf(L, sms, x, y, i) ==
    IF i > Len(sms) THEN 0
    ELSE (IF IsCanonical(L, sms[i][1], x, y) THEN sms[i][2] ELSE 0)
         + CountOf(L, sms, x, y, i + 1)

Interpreted == pc \in {"interpret_permuted", "render", "rendered", "raised"}

\* C3: the table of _interpret_samples holds at every (x, y) the sum of the
\* counts of the samples that encode (x, y), and has no other entry
C3_ExactFold ==
    Interpreted =>
        /\ DOMAIN interpreted_samples \subseteq Grid(landscape)
        /\ \A c \in Grid(landscape) :
               At(interpreted_samples, c) = CountOf(landscape, samples, c[1], c[2], 1)

C3_Witness ==
    /\ Interpreted
    /\ samples = << <<Canonical(landscape, 1, 0), 2>>, <<Canonical(landscape, 1, 0), 1>> >>
    /\ At(interpreted_samples, <<1, 0>>) = 3

\* a second witness of C3: a sample valid on x only leaves the table empty
C3_WitnessMixed ==
    /\ Interpreted
    /\ samples = << <<ValidOnXOnly, 2>> >>
    /\ DOMAIN interpreted_samples = {}

\* C6: _interpret_samples returns the same table for a permutation of the
\* samples
C6_OrderIndependent ==
    pc \in {"render", "rendered", "raised"} =>
        \A c \in Grid(landscape) :
            At(interpreted_samples, c) = At(interpreted_permuted, c)

C6_Witness ==
    /\ pc = "render"
    /\ samples = << <<ValidOnYOnly, 1>>, <<Canonical(landscape, 9, 9), 2>> >>
    /\ permuted = << <<Canonical(landscape, 9, 9), 2>>, <<ValidOnYOnly, 1>> >>
    /\ At(interpreted_permuted, <<9, 9>>) = 2

NoneCanonical(L, sms, c) ==
    \A i \in 1..Len(sms) : ~IsCanonical(L, sms[i][1], c[1], c[2])

\* C7: the lookup of a coordinate of the grid that no sample encodes gives
\* 0 and does not fail
C7_ZeroDefault ==
    pc \in {"rendered", "raised"} =>
        /\ error = "none"
        /\ \A c \in Grid(landscape) :
               NoneCanonical(landscape, samples, c) => lookup[c] = 0

C7_Witness ==
    /\ pc = "rendered"
    /\ samples = << <<ValidOnXOnly, 1>>, <<ValidOnNeither, 2>> >>
    /\ error = "none"
    /\ \A c \in Grid(landscape) : lookup[c] = 0

----------------------------------------------------------------------------
(* Other configurations: landscapes that are not square or too small, and  *)
(* embeddings with another number of groups                                 *)

Square2 == Row(<< Row(<<4, 3>>), Row(<<3, 2>>) >>)

Square3 == Row(<< Row(<<4, 3, 2>>), Row(<<3, 2, 1>>), Row(<<3, 2, 0>>) >>)

\* more columns than rows
Wide == Row(<< Row(<<4, 3, 2>>), Row(<<3, 2, 1>>) >>)

\* more rows than columns
Tall == Row(<< Row(<<4, 3>>), Row(<<3, 2>>), Row(<<3, 2>>) >>)

Ragged == Row(<< Row(<<4, 3, 2>>), Row(<<3>>), Row(<<3, 2, 0>>) >>)

Single == Row(<< Row(<<4>>) >>)

Empty == Row(<< >>)

Landscapes == {Square2, Square3, Wide, Tall, Ragged, Single, Empty}

GroupCounts == {2, 3, 4}

InitConfig ==
    /\ landscape \in Landscapes
    /\ embedding \in GroupCounts
    /\ pc = "get_qubo"
    /\ Q = EmptyDict
    /\ error = "none"
    /\ sample = [i \in {} |-> 0]
    /\ coord = <<None, None>>
    /\ samples = <<>>
    /\ permuted = <<>>
    /\ interpreted_samples = EmptyDict
    /\ interpreted_permuted = EmptyDict
    /\ lookup = EmptyDict

SpecConfig == InitConfig /\ [][Next]_vars

IsSquare(L) == \A r \in DOMAIN L : len(L[r]) = len(L)

BadConfiguration ==
    \/ ~IsSquare(landscape)
    \/ len(landscape) < 2
    \/ embedding # 2 * (len(landscape) - 1)

TooSmall(L) == len(L) < 2 \/ \E r \in DOMAIN L : len(L[r]) < len(L)

C8_WitnessWide ==
    /\ landscape = Wide
    /\ embedding = 3
    /\ pc = "done"
    /\ Q = get_qubo(Square2, ENCODING_BIAS)

====
